---- MODULE Spec2Model ----
(***************************************************************************)
(* A model of the DirectShow camera wrapper: the sample-grabber callback   *)
(* objects (CSampleGrabberCB, CFrameSavingCallback) and the                *)
(* DirectShowCamera class that builds and controls the capture graph.      *)
(*                                                                         *)
(* The framework (COM, the filter graph, the file system) is the           *)
(* environment: every call into it returns a status the model chooses.     *)
(* Console output and the tick-count fields (m_startTime, m_lastFrameTime) *)
(* are not modelled.                                                       *)
(***************************************************************************)
EXTENDS Integers, Sequences, FiniteSets, TLC

\* ------------------------------------------------------------------ bounds
MaxFrameLen == 3     \* longest frame buffer delivered, in bytes
MaxCount    == 2     \* most BufferCB calls counted between two resets
MaxRef      == 2     \* highest reference count explored
MaxDim      == 1     \* largest image dimension passed to SetImageDimensions
MaxDevices  == 2     \* most video input devices the system enumerates
MaxCom      == 1     \* most CoInitializeEx successes and CoUninitialize calls
MaxFaults   == 1     \* most framework calls that fail although they usually succeed
MaxGrabbers == 1     \* most sample grabber filters created
MaxBright   == 6     \* longest frame buffer whose brightness is worked out, in bytes
MaxErr      == 20    \* status codes -MaxErr..MaxErr are described, besides the named ones

\* --------------------------------------------------------- status codes
S_OK                 == 0
S_FALSE              == 1
E_FAIL               == -2147467259   \* 0x80004005
E_OUTOFMEMORY        == -2147024882   \* 0x8007000E
CO_E_NOTINITIALIZED  == -2147221008   \* 0x800401F0
VFW_E_NOT_CONNECTED  == -2147220983   \* 0x80040209
E_NOINTERFACE        == -2147467262   \* 0x80004002
E_INVALIDARG         == -2147024809   \* 0x80070057
VFW_E_NOT_FOUND      == -2147220970   \* 0x80040216
VFW_E_CANNOT_CONNECT == -2147220969   \* 0x80040217

FAILED(hr)    == hr < 0
SUCCEEDED(hr) == hr >= 0

\* ------------------------------------------------------------ variables
VARIABLES
    cb,        \* the callback object: its fields, plus observers
    file,      \* captured_frame.bmp as the file system holds it
    crashed,   \* the process was ended by undefined behaviour
    last,      \* the last call made on an object and what it did
    camera,    \* the DirectShowCamera object's fields
    graph,     \* the framework's side of the held graph and filters
    com,       \* the framework's counts: CoInitializeEx successes, CoUninitialize
               \* calls, failures injected, sample grabbers created
    errHr,     \* the status code handed to GetErrorDescription
    errText,   \* the text GetErrorDescription built for it
    threads    \* where the application thread and the framework's thread stand
               \* when StartCapture and BufferCB are followed step by step

cbVars  == <<cb, file, crashed>>
camVars == <<camera, graph, com, threads>>
errVars == <<errHr, errText>>
vars    == <<cb, file, crashed, last, camera, graph, com, errHr, errText, threads>>

\* --------------------------------------------------------------- frames
ByteVals == {0, 255}

RECURSIVE SeqsUpTo(_, _)
SeqsUpTo(S, n) ==
    IF n = 0 THEN {<<>>}
    ELSE LET shorter == SeqsUpTo(S, n - 1)
         IN  shorter \cup {Append(s, x) : s \in {t \in shorter : Len(t) = n - 1}, x \in S}

\* A delivery is a buffer pointer and a length.  A null pointer carries no
\* data; a non-null buffer holds exactly `len` bytes.
Frames ==
    {[null |-> TRUE, data |-> <<>>]} \cup
    {[null |-> FALSE, data |-> d] : d \in SeqsUpTo(ByteVals, MaxFrameLen)}

FrameSize(f) == Len(f.data)

\* ------------------------------------------------------ camera object
\* DirectShowCamera(): every interface pointer null, both flags false.
NewCamera ==
    [m_pGraph |-> FALSE, m_pCaptureGraphBuilder |-> FALSE, m_pMediaControl |-> FALSE,
     m_pMediaEvent |-> FALSE, m_pCameraFilter |-> FALSE, m_pSampleGrabberFilter |-> FALSE,
     m_pSampleGrabber |-> FALSE, m_pNullRenderer |-> FALSE, m_pCallback |-> FALSE,
     m_isInitialized |-> FALSE, m_isCapturing |-> FALSE]

\* What the framework knows of the objects the camera holds: the state of the
\* graph behind m_pGraph, whether the held camera, sample grabber and null
\* renderer filters were added to that graph, whether RenderStream connected
\* them, and whether the held sample grabber was given the callback.
NoGraph ==
    [state |-> "Stopped", camera |-> FALSE, grabber |-> FALSE, renderer |-> FALSE,
     connected |-> FALSE, cbSet |-> FALSE]

NoCom == [inits |-> 0, uninits |-> 0, faults |-> 0, grabbers |-> 0]

\* Both threads between calls. reg is the value of m_frameCount the
\* framework's thread has read and not yet written back, delivered the frames
\* handed to BufferCB since the last successful Run, hr the status StartCapture
\* holds, cleanup what a Cleanup followed step by step has done so far.
NoThreads ==
    [app |-> "idle", fw |-> "idle", reg |-> 0, delivered |-> 0, hr |-> 0,
     cleanup |-> <<>>]

\* ------------------------------------------------------ callback object
NoObject ==
    [alive |-> FALSE, kind |-> "none", m_refCount |-> 0, m_frameCount |-> 0,
     m_frameSaved |-> FALSE, m_imageWidth |-> 0, m_imageHeight |-> 0,
     bufferCalls |-> 0, saveCalls |-> 0, eligible |-> 0]

\* CSampleGrabberCB() and CFrameSavingCallback(): the fields as constructed.
\* bufferCalls, saveCalls and eligible observe the object: BufferCB calls
\* since construction or the last reset, SaveFrameAsBMP invocations, and
\* deliveries of a non-null, non-empty frame (counted 0, 1, "2 or more").
NewCallback(kind) ==
    [alive |-> TRUE, kind |-> kind, m_refCount |-> 1, m_frameCount |-> 0,
     m_frameSaved |-> FALSE, m_imageWidth |-> 0, m_imageHeight |-> 0,
     bufferCalls |-> 0, saveCalls |-> 0, eligible |-> 0]

CallbackKinds == {"CSampleGrabberCB", "CFrameSavingCallback"}

NoFile == [exists |-> FALSE, chunks |-> <<>>]

\* The record of a call: the operation, its argument, whether it returned,
\* the value it returned, the calls it made, in order, and (pre) the counter
\* the operation is about as it stood before the call, and (id) the
\* interface or name the call was given, and (out) the list it filled.
Done(op, arg, ret, calls) ==
    [op |-> op, arg |-> arg, returned |-> TRUE, ret |-> ret, calls |-> calls,
     pre |-> 0, id |-> "", out |-> <<>>]

NoArg == [null |-> TRUE, len |-> 0]

\* A call in progress on the callback object: the object, the file, whether
\* the process died, and the calls made so far.
Ctx(o, fl, calls) == [cb |-> o, file |-> fl, crashed |-> FALSE, calls |-> calls]

\* What a call is handed of a frame: the buffer pointer (null or not) and the
\* length.
Buf(f) == [null |-> f.null, len |-> Len(f.data)]

Called(x, name, f) == [x EXCEPT !.calls = Append(@, [call |-> name, buf |-> Buf(f)])]

\* ------------------------------------------------------------- IUnknown
SupportedIIDs == {"IID_IUnknown", "IID_ISampleGrabberCB"}
IIDs          == SupportedIIDs \cup {"IID_IMediaSample"}

AddRefObj(o) == [o EXCEPT !.m_refCount = @ + 1]

\* Release that forgets to destroy the object at zero.
ReleaseObj_NoDelete(o) == [o EXCEPT !.m_refCount = @ - 1]

ReleaseObj(o) ==
    IF o.m_refCount - 1 = 0
    THEN NoObject                                           \* delete this
    ELSE [o EXCEPT !.m_refCount = @ - 1]

QueryInterfaceObj(o, riid) ==
    IF riid \in SupportedIIDs
    THEN [obj |-> AddRefObj(o), hr |-> S_OK]
    ELSE [obj |-> o, hr |-> E_NOINTERFACE]

\* ---------------------------------------------------- frame processing
\* totalBrightness after the loop has run from index i to the end of d.
RECURSIVE TotalBrightness(_, _)
TotalBrightness(d, i) ==
    IF i >= Len(d) THEN 0
    ELSE (IF i + 2 < Len(d) THEN (d[i + 1] + d[i + 2] + d[i + 3]) \div 3 ELSE 0)
         + TotalBrightness(d, i + 3)

\* CalculateAverageBrightness: the running total, the divisor frameSize / 3,
\* and the quotient of the two as a double: 0/0 is NaN.
CalculateAverageBrightness(f) ==
    LET n     == FrameSize(f)
        total == TotalBrightness(f.data, 0)
    IN  IF n > 0
        THEN [total |-> total, divisor |-> n \div 3, nan |-> (n \div 3 = 0)]
        ELSE [total |-> 0, divisor |-> 1, nan |-> FALSE]

AnalyzeFrame(x, f) ==
    IF FrameSize(f) > 0 THEN Called(x, "CalculateAverageBrightness", f) ELSE x

\* CSampleGrabberCB::ProcessFrame
BaseProcessFrame(x, f) == AnalyzeFrame(Called(x, "CSampleGrabberCB::ProcessFrame", f), f)

\* (int)std::sqrt(v) for v >= 0
Isqrt(v) == CHOOSE r \in 0..v : r * r <= v /\ (r + 1) * (r + 1) > v

SizeofBITMAPFILEHEADER == 14
SizeofBITMAPINFOHEADER == 40
BI_RGB == 0

\* The BGR -> RGB copy into a zero-filled buffer of frameSize bytes.
RgbData(f) ==
    LET n == FrameSize(f)
        d == f.data
    IN  [k \in 1..n |->
            LET i == ((k - 1) \div 3) * 3
            IN  IF i + 2 < n
                THEN CASE (k - 1) % 3 = 0 -> d[i + 3]
                       [] (k - 1) % 3 = 1 -> d[i + 2]
                       [] OTHER           -> d[i + 1]
                ELSE 0]

BmpFileHeader(frameSize) ==
    [chunk     |-> "BITMAPFILEHEADER",
     bfType    |-> 19778,                                           \* 0x4D42
     bfOffBits |-> SizeofBITMAPFILEHEADER + SizeofBITMAPINFOHEADER,
     bfSize    |-> SizeofBITMAPFILEHEADER + SizeofBITMAPINFOHEADER + frameSize]

\* The info header with a positive (bottom-up) height.
BmpInfoHeader_BottomUp(w, h, frameSize) ==
    [chunk         |-> "BITMAPINFOHEADER",
     biSize        |-> SizeofBITMAPINFOHEADER,
     biWidth       |-> w,
     biHeight      |-> h,
     biPlanes      |-> 1,
     biBitCount    |-> 24,
     biCompression |-> BI_RGB,
     biSizeImage   |-> frameSize]

BmpInfoHeader(w, h, frameSize) ==
    [chunk         |-> "BITMAPINFOHEADER",
     biSize        |-> SizeofBITMAPINFOHEADER,
     biWidth       |-> w,
     biHeight      |-> -h,
     biPlanes      |-> 1,
     biBitCount    |-> 24,
     biCompression |-> BI_RGB,
     biSizeImage   |-> frameSize]

\* What the three WriteFile calls put into the file created by CreateFileA.
BmpFile(o, f) ==
    [exists |-> TRUE,
     chunks |-> << BmpFileHeader(FrameSize(f)),
                   BmpInfoHeader(o.m_imageWidth, o.m_imageHeight, FrameSize(f)),
                   [chunk |-> "pixels", bytes |-> RgbData(f)] >>]

\* Values an integer division by zero may leave behind when it does not trap.
UBInts == {-1, 0, 1}

\* The dimension estimate of SaveFrameAsBMP, taken when either dimension is 0.
\* The set of objects it may leave when it does not trap.
EstimateDimensions(o, f) ==
    IF o.m_imageWidth = 0 \/ o.m_imageHeight = 0
    THEN LET totalPixels == FrameSize(f) \div 3
             w           == Isqrt((totalPixels * 133) \div 100)
         IN  IF w = 0
             THEN {[o EXCEPT !.m_imageWidth = 0, !.m_imageHeight = h] : h \in UBInts}
             ELSE {[o EXCEPT !.m_imageWidth = w, !.m_imageHeight = totalPixels \div w]}
    ELSE {o}

DivisionByZero(o, f) ==
    (o.m_imageWidth = 0 \/ o.m_imageHeight = 0) /\ FrameSize(f) \div 3 = 0

\* CFrameSavingCallback::SaveFrameAsBMP.  CreateFileA either makes the file
\* (CREATE_ALWAYS: an older one is replaced) or fails; the WriteFile calls
\* put the headers and the pixels into it.
SaveFrameAsBMP(x, f) ==
    LET x1 == [Called(x, "SaveFrameAsBMP", f) EXCEPT !.cb.saveCalls = @ + 1]
    IN  (IF DivisionByZero(x.cb, f) THEN {[x1 EXCEPT !.crashed = TRUE]} ELSE {})
        \cup
        UNION {
            { [x1 EXCEPT !.cb = o, !.file = BmpFile(o, f)],    \* file created
              [x1 EXCEPT !.cb = o] }                           \* INVALID_HANDLE_VALUE
            : o \in EstimateDimensions(x1.cb, f) }

\* ProcessFrame that marks the frame saved only when the file was created.
SavingProcessFrame_Retry(x, f) ==
    LET x1 == BaseProcessFrame(Called(x, "CFrameSavingCallback::ProcessFrame", f), f)
    IN  IF ~x1.cb.m_frameSaved /\ ~f.null /\ FrameSize(f) > 0
        THEN {IF y.crashed \/ ~y.file.exists THEN y ELSE [y EXCEPT !.cb.m_frameSaved = TRUE]
                 : y \in SaveFrameAsBMP(x1, f)}
        ELSE {x1}

\* CFrameSavingCallback::ProcessFrame
SavingProcessFrame(x, f) ==
    LET x1 == BaseProcessFrame(Called(x, "CFrameSavingCallback::ProcessFrame", f), f)
    IN  IF ~x1.cb.m_frameSaved /\ ~f.null /\ FrameSize(f) > 0
        THEN {IF y.crashed THEN y ELSE [y EXCEPT !.cb.m_frameSaved = TRUE]
                 : y \in SaveFrameAsBMP(x1, f)}
        ELSE {x1}

\* The virtual call ProcessFrame(pBuffer, bufferLen)
ProcessFrame(x, f) ==
    IF x.cb.kind = "CFrameSavingCallback"
    THEN SavingProcessFrame(x, f)
    ELSE {BaseProcessFrame(x, f)}

OnFrameReceived(x, f) == Called(x, "OnFrameReceived", f)

Min(a, b) == IF a < b THEN a ELSE b

Eligible(f) == ~f.null /\ FrameSize(f) > 0

\* BufferCB that counts only the frames that carry data.
BufferCBCall_SkipEmpty(o, fl, f) ==
    LET o1 == [o EXCEPT !.m_frameCount = IF FrameSize(f) > 0 THEN @ + 1 ELSE @,
                        !.bufferCalls  = @ + 1,
                        !.eligible     = IF Eligible(f) THEN Min(2, @ + 1) ELSE @]
    IN  {IF y.crashed THEN y ELSE OnFrameReceived(y, f)
            : y \in ProcessFrame(Ctx(o1, fl, <<>>), f)}

\* CSampleGrabberCB::BufferCB on object o: the outcomes of one delivery.
BufferCBCall(o, fl, f) ==
    LET o1 == [o EXCEPT !.m_frameCount = @ + 1,
                        !.bufferCalls  = @ + 1,
                        !.eligible     = IF Eligible(f) THEN Min(2, @ + 1) ELSE @]
    IN  {IF y.crashed THEN y ELSE OnFrameReceived(y, f)
            : y \in ProcessFrame(Ctx(o1, fl, <<>>), f)}

ResetStatisticsObj(o) == [o EXCEPT !.m_frameCount = 0, !.bufferCalls = 0]

SetImageDimensionsObj(o, w, h) == [o EXCEPT !.m_imageWidth = w, !.m_imageHeight = h]

\* ------------------------------------------ calls on the callback object
Usable == ~crashed /\ cb.alive

QueryInterface(riid) ==
    /\ Usable
    /\ cb.m_refCount < MaxRef
    /\ LET r == QueryInterfaceObj(cb, riid)
       IN  /\ cb' = r.obj
           /\ last' = [Done("QueryInterface", NoArg, r.hr, <<>>) EXCEPT
                           !.pre = cb.m_refCount, !.id = riid]
    /\ UNCHANGED <<file, crashed, camVars, errVars>>

AddRef ==
    /\ Usable
    /\ cb.m_refCount < MaxRef
    /\ cb' = AddRefObj(cb)
    /\ last' = [Done("AddRef", NoArg, cb'.m_refCount, <<>>) EXCEPT !.pre = cb.m_refCount]
    /\ UNCHANGED <<file, crashed, camVars, errVars>>

Release ==
    /\ Usable
    /\ cb' = ReleaseObj(cb)
    /\ last' = [Done("Release", NoArg, cb'.m_refCount, <<>>) EXCEPT !.pre = cb.m_refCount]
    /\ UNCHANGED <<file, crashed, camVars, errVars>>

SampleCB ==
    /\ Usable
    /\ last' = [Done("SampleCB", NoArg, S_OK, <<>>) EXCEPT !.pre = cb.m_frameCount]
    /\ UNCHANGED <<cb, file, crashed, camVars, errVars>>

BufferCB(f) ==
    /\ Usable
    /\ cb.m_frameCount < MaxCount
    /\ \E y \in BufferCBCall(cb, file, f) :
          /\ cb' = y.cb
          /\ file' = y.file
          /\ crashed' = y.crashed
          /\ last' = [Done("BufferCB", Buf(f), S_OK, y.calls) EXCEPT
                          !.returned = ~y.crashed, !.pre = cb.m_frameCount]
    /\ UNCHANGED <<camVars, errVars>>

ResetStatistics ==
    /\ Usable
    /\ cb' = ResetStatisticsObj(cb)
    /\ last' = Done("ResetStatistics", NoArg, 0, <<>>)
    /\ UNCHANGED <<file, crashed, camVars, errVars>>

SetImageDimensions(w, h) ==
    /\ Usable
    /\ cb.kind = "CFrameSavingCallback"
    /\ cb' = SetImageDimensionsObj(cb, w, h)
    /\ last' = Done("SetImageDimensions", NoArg, 0, <<>>)
    /\ UNCHANGED <<file, crashed, camVars, errVars>>

InitCB ==
    /\ cb \in {NewCallback(kind) : kind \in CallbackKinds}
    /\ file = NoFile
    /\ crashed = FALSE
    /\ last = Done("new", NoArg, 0, <<>>)
    /\ camera = NewCamera
    /\ graph = NoGraph
    /\ com = NoCom
    /\ threads = NoThreads
    /\ errHr = S_OK
    /\ errText = <<>>

NextCB ==
    \/ \E riid \in IIDs : QueryInterface(riid)
    \/ AddRef
    \/ Release
    \/ SampleCB
    \/ \E f \in Frames : BufferCB(f)
    \/ ResetStatistics
    \/ \E w \in 0..MaxDim, h \in 0..MaxDim : SetImageDimensions(w, h)

SpecCB == InitCB /\ [][NextCB]_vars

\* ------------------------------------------------------------------------
\* Properties of the callback object
\* ------------------------------------------------------------------------
SaveInvoked(l) == \E i \in 1..Len(l.calls) : l.calls[i].call = "SaveFrameAsBMP"

\* C1: a CFrameSavingCallback invokes SaveFrameAsBMP at most once in its
\* lifetime: on the first delivered frame whose pointer is non-null and whose
\* size is positive, and on no later frame, whether or not the file could be
\* created.
C1_SaveFirstFrameOnce ==
    cb.kind = "CFrameSavingCallback" =>
        /\ cb.saveCalls <= 1
        /\ (cb.saveCalls = 1) <=> (cb.eligible >= 1)
        /\ (last.op = "BufferCB" /\ SaveInvoked(last)) =>
               /\ ~last.arg.null
               /\ last.arg.len > 0
               /\ cb.eligible = 1

\* C1 witness: the one attempt failed to create the file, a later frame with
\* data has been delivered, and no second attempt was made.
C1_Witness ==
    /\ cb.kind = "CFrameSavingCallback"
    /\ ~crashed
    /\ cb.eligible = 2
    /\ cb.saveCalls = 1
    /\ ~file.exists
    /\ last.op = "BufferCB"
    /\ last.arg.len > 0

\* The BufferCB call just made ran SaveFrameAsBMP to its end.
JustSaved == last.op = "BufferCB" /\ last.returned /\ SaveInvoked(last)

\* C4: the file SaveFrameAsBMP writes is the file header, the info header and
\* frameSize bytes of pixels, in that order, with bfType = 0x4D42, bfOffBits =
\* the two header sizes, bfSize = bfOffBits + frameSize, biSize = the info
\* header size, biWidth = width, biHeight = -height, biPlanes = 1, biBitCount
\* = 24, biCompression = BI_RGB and biSizeImage = frameSize.
C4_BmpLayout ==
    file.exists =>
        LET c == file.chunks
        IN  /\ Len(c) = 3
            /\ c[1].chunk = "BITMAPFILEHEADER"
            /\ c[2].chunk = "BITMAPINFOHEADER"
            /\ c[3].chunk = "pixels"
            /\ c[1].bfType = 19778
            /\ c[1].bfOffBits = SizeofBITMAPFILEHEADER + SizeofBITMAPINFOHEADER
            /\ c[1].bfSize = c[1].bfOffBits + Len(c[3].bytes)
            /\ c[2].biSize = SizeofBITMAPINFOHEADER
            /\ c[2].biPlanes = 1
            /\ c[2].biBitCount = 24
            /\ c[2].biCompression = BI_RGB
            /\ c[2].biSizeImage = Len(c[3].bytes)
            /\ JustSaved =>
                  /\ Len(c[3].bytes) = last.arg.len
                  /\ c[2].biWidth = cb.m_imageWidth
                  /\ c[2].biHeight = -cb.m_imageHeight

\* C4 witness: a frame of the greatest length was just saved with dimensions
\* that were set beforehand.
C4_Witness ==
    /\ file.exists
    /\ JustSaved
    /\ last.arg.len = MaxFrameLen
    /\ file.chunks[2].biWidth = MaxDim
    /\ file.chunks[2].biHeight = -MaxDim

IsProcessFrame(c) ==
    c.call = (IF cb.kind = "CFrameSavingCallback"
              THEN "CFrameSavingCallback::ProcessFrame"
              ELSE "CSampleGrabberCB::ProcessFrame")

OnFrameReceivedCalls(l) == {i \in 1..Len(l.calls) : l.calls[i].call = "OnFrameReceived"}

C8_RefCount ==
    /\ cb.alive <=> cb.m_refCount > 0
    /\ last.op = "new" => cb.m_refCount = 1
    /\ last.op = "AddRef" => cb.m_refCount = last.pre + 1 /\ last.ret = cb.m_refCount
    /\ last.op = "QueryInterface" =>
          IF last.id \in {"IID_IUnknown", "IID_ISampleGrabberCB"}
          THEN last.ret = S_OK /\ cb.m_refCount = last.pre + 1
          ELSE last.ret = E_NOINTERFACE /\ cb.m_refCount = last.pre
    /\ last.op = "Release" =>
          /\ last.ret = last.pre - 1
          /\ cb.m_refCount = last.pre - 1
          /\ cb.alive <=> last.pre > 1

\* C8 witness: the last reference was released and the object destroyed.
C8_Witness ==
    /\ last.op = "Release"
    /\ last.pre = 1
    /\ last.ret = 0
    /\ ~cb.alive

\* ------------------------------------------------------------------------
\* GetErrorDescription
\* ------------------------------------------------------------------------
HexDigit == <<"0", "1", "2", "3", "4", "5", "6", "7", "8", "9",
              "a", "b", "c", "d", "e", "f">>

\* The digits operator<< writes for v >= 0 under std::hex: no leading zeros.
RECURSIVE HexOf(_)
HexOf(v) ==
    IF v < 16 THEN <<HexDigit[v + 1]>>
    ELSE Append(HexOf(v \div 16), HexDigit[(v % 16) + 1])

\* Exactly four digits for 0 <= v < 65536.
Hex4(v) ==
    << HexDigit[(v \div 4096) + 1], HexDigit[((v \div 256) % 16) + 1],
       HexDigit[((v \div 16) % 16) + 1], HexDigit[(v % 16) + 1] >>

\* std::hex << hr: a 32-bit long is written as its unsigned bit pattern.  The
\* pattern is taken in two 16-bit halves.
HexOfHRESULT(hr) ==
    LET hi == (hr \div 65536) % 65536
        lo == hr % 65536
    IN  IF hi = 0 THEN HexOf(lo) ELSE HexOf(hi) \o Hex4(lo)

\* The switch of GetErrorDescription with the default case left out.
ErrorSuffix_NoDefault(hr) ==
    CASE hr = VFW_E_NOT_FOUND      -> <<" (No capture devices found)">>
      [] hr = E_NOINTERFACE        -> <<" (Interface not supported)">>
      [] hr = E_INVALIDARG         -> <<" (Invalid argument)">>
      [] hr = VFW_E_CANNOT_CONNECT -> <<" (Cannot connect filters)">>
      [] OTHER                     -> <<>>

ErrorSuffix(hr) ==
    CASE hr = VFW_E_NOT_FOUND      -> <<" (No capture devices found)">>
      [] hr = E_NOINTERFACE        -> <<" (Interface not supported)">>
      [] hr = E_INVALIDARG         -> <<" (Invalid argument)">>
      [] hr = VFW_E_CANNOT_CONNECT -> <<" (Cannot connect filters)">>
      [] OTHER                     -> <<" (Unknown error)">>

\* The pieces the string stream was given, in order: the prefix, one piece
\* per hexadecimal digit, the description.
GetErrorDescription(hr) == <<"HRESULT: 0x">> \o HexOfHRESULT(hr) \o ErrorSuffix(hr)

NamedCodes == {VFW_E_NOT_FOUND, E_NOINTERFACE, E_INVALIDARG, VFW_E_CANNOT_CONNECT}

\* The status codes described: the named ones and their neighbours, the other
\* codes of the model, the small codes and the two ends of the 32-bit range.
HResults ==
    NamedCodes \cup {c + 1 : c \in NamedCodes} \cup {c - 1 : c \in NamedCodes}
    \cup {E_FAIL, 2147483647, -2147483647 - 1} \cup ((0 - MaxErr)..MaxErr)

Describe ==
    /\ errText = <<>>
    /\ errText' = GetErrorDescription(errHr)
    /\ UNCHANGED <<errHr, cb, file, crashed, last, camVars>>

NextCode ==
    /\ errText # <<>>
    /\ errHr' \in HResults
    /\ errText' = <<>>
    /\ UNCHANGED <<cb, file, crashed, last, camVars>>

InitErr ==
    /\ errHr \in HResults
    /\ errText = <<>>
    /\ cb = NoObject
    /\ file = NoFile
    /\ crashed = FALSE
    /\ last = Done("new", NoArg, 0, <<>>)
    /\ camera = NewCamera
    /\ graph = NoGraph
    /\ com = NoCom
    /\ threads = NoThreads

NextErr == Describe \/ NextCode

SpecErr == InitErr /\ [][NextErr]_vars

\* The value of one hexadecimal digit, 16 for anything else.
DigitValue(ch) ==
    IF \E i \in 1..16 : HexDigit[i] = ch
    THEN (CHOOSE i \in 1..16 : HexDigit[i] = ch) - 1
    ELSE 16

\* The number the digits ds stand for (fewer than 8 digits, or 4 at most when
\* read as a half).
RECURSIVE HexValue(_)
HexValue(ds) ==
    IF ds = <<>> THEN 0
    ELSE 16 * HexValue(SubSeq(ds, 1, Len(ds) - 1)) + DigitValue(ds[Len(ds)])

\* The 32-bit signed value whose bit pattern the digits ds (1 to 8 of them,
\* no leading zero) spell.
SignedOfHex(ds) ==
    IF Len(ds) <= 4 THEN HexValue(ds)
    ELSE LET hi == HexValue(SubSeq(ds, 1, Len(ds) - 4))
             lo == HexValue(SubSeq(ds, Len(ds) - 3, Len(ds)))
         IN  (IF hi >= 32768 THEN hi - 65536 ELSE hi) * 65536 + lo

Descriptions ==
    {" (No capture devices found)", " (Interface not supported)",
     " (Invalid argument)", " (Cannot connect filters)", " (Unknown error)"}

\* C5: for every status code the text is "HRESULT: 0x", the code in
\* hexadecimal, and exactly one parenthesised description; the four named
\* codes have four distinct descriptions of their own and every other code
\* has " (Unknown error)".
C5_ErrorDescription ==
    errText # <<>> =>
        LET n      == Len(errText)
            digits == SubSeq(errText, 2, n - 1)
        IN  /\ n >= 3
            /\ errText[1] = "HRESULT: 0x"
            /\ Len(digits) <= 8
            /\ \A i \in 1..Len(digits) : DigitValue(digits[i]) < 16
            /\ Len(digits) > 1 => digits[1] # "0"
            /\ SignedOfHex(digits) = errHr
            /\ errText[n] \in Descriptions
            /\ (errText[n] = " (Unknown error)") <=> (errHr \notin NamedCodes)
            /\ \A c \in NamedCodes :
                  errText[n] = GetErrorDescription(c)[Len(GetErrorDescription(c))]
                      <=> errHr = c

\* C5 witness: a named code (a negative number, eight digits) was described.
C5_Witness ==
    /\ errHr = VFW_E_CANNOT_CONNECT
    /\ errText = <<"HRESULT: 0x", "8", "0", "0", "4", "0", "2", "1", "7",
                   " (Cannot connect filters)">>

\* ------------------------------------------------------------------------
\* DirectShowCamera
\* ------------------------------------------------------------------------
\* The devices the system enumerates, by friendly name: the first is "A",
\* the second "B", and so on; any number of them may be plugged in.
FriendlyNames == <<"A", "B", "C", "D">>
DeviceNames   == {FriendlyNames[i] : i \in 1..MaxDevices}
DeviceLists   == {SubSeq(FriendlyNames, 1, n) : n \in 0..MaxDevices}

\* The status of a framework call that fails although nothing in the program
\* state makes it fail.
FaultCode == E_OUTOFMEMORY

\* An operation in progress: the objects, the calls made so far (framework
\* calls and completed operations of the class), the status held in hr, and
\* the environment of the operation: the devices present, and the one
\* framework call (the failAt-th, none when 0) that fails with FaultCode where
\* it would have succeeded.
Op(devs, failAt) ==
    [cam |-> camera, gr |-> graph, com |-> com, cb |-> cb, crashed |-> FALSE,
     calls |-> <<>>, n |-> 0, hr |-> S_OK, out |-> <<>>,
     devs |-> devs, failAt |-> failAt]

InGraph(x) ==
    {k \in {"camera", "grabber", "renderer"} :
        \/ k = "camera"   /\ x.cam.m_pCameraFilter        /\ x.gr.camera
        \/ k = "grabber"  /\ x.cam.m_pSampleGrabberFilter /\ x.gr.grabber
        \/ k = "renderer" /\ x.cam.m_pNullRenderer        /\ x.gr.renderer}

\* A framework call whose usual status is `usual`.
Fw(x, name, usual) ==
    LET fault == x.n + 1 = x.failAt /\ SUCCEEDED(usual)
        hr    == IF fault THEN FaultCode ELSE usual
    IN  IF x.crashed THEN x ELSE
        [x EXCEPT !.n = @ + 1, !.hr = hr,
                  !.com.faults = IF fault THEN @ + 1 ELSE @,
                  !.calls = Append(@, [call |-> name, kind |-> "fw", hr |-> hr,
                                       inGraph |-> InGraph(x)])]

\* A method of the class has returned x.hr.
Returned(x, name) ==
    IF x.crashed THEN x ELSE
    [x EXCEPT !.calls = Append(@, [call |-> name, kind |-> "op", hr |-> x.hr,
                                   inGraph |-> InGraph(x)])]

Ret(x, hr) == [x EXCEPT !.hr = hr]

\* A call through a null interface pointer ends the process.
NullCall(x) == [x EXCEPT !.crashed = TRUE, !.hr = E_FAIL]

\* CoCreateInstance fails while COM is not initialized on the thread.
CoCreateUsual(x) == IF x.com.inits > x.com.uninits THEN S_OK ELSE CO_E_NOTINITIALIZED

\* F at v, with v worked out once however often F uses it.
Bind(v, F(_)) == CHOOSE r \in {F(a) : a \in {v}} : TRUE

\* --------------------------------------------------------- Initialize
CoInitializeEx(x) ==
    Bind(Fw(x, "CoInitializeEx", S_OK), LAMBDA a :
        IF SUCCEEDED(a.hr) THEN [a EXCEPT !.com.inits = @ + 1] ELSE a)

CreateFilterGraph(x) ==
    Bind(Fw(x, "CoCreateInstance(FilterGraph)", CoCreateUsual(x)), LAMBDA a :
        IF FAILED(a.hr) THEN Returned([a EXCEPT !.cam.m_pGraph = FALSE], "CreateFilterGraph")
        ELSE
        Bind(Fw([a EXCEPT !.cam.m_pGraph = TRUE, !.gr = NoGraph],
                "QueryInterface(IMediaControl)", S_OK), LAMBDA b :
            IF FAILED(b.hr)
            THEN Returned([b EXCEPT !.cam.m_pMediaControl = FALSE], "CreateFilterGraph")
            ELSE
            Bind(Fw([b EXCEPT !.cam.m_pMediaControl = TRUE],
                    "QueryInterface(IMediaEvent)", S_OK), LAMBDA c :
                Returned([c EXCEPT !.cam.m_pMediaEvent = SUCCEEDED(c.hr)],
                         "CreateFilterGraph"))))

CreateCaptureGraphBuilder(x) ==
    Bind(Fw(x, "CoCreateInstance(CaptureGraphBuilder2)", CoCreateUsual(x)), LAMBDA a :
        IF FAILED(a.hr)
        THEN Returned([a EXCEPT !.cam.m_pCaptureGraphBuilder = FALSE], "CreateCaptureGraphBuilder")
        ELSE Returned(Fw([a EXCEPT !.cam.m_pCaptureGraphBuilder = TRUE], "SetFiltergraph", S_OK),
                      "CreateCaptureGraphBuilder"))

\* Initialize that sets m_isInitialized as soon as COM is initialized.
InitializeCall_FlagEarly(x) ==
    IF x.cam.m_isInitialized THEN Ret(x, S_OK)
    ELSE
    Bind(CoInitializeEx(x), LAMBDA a :
        IF FAILED(a.hr) THEN a ELSE
        Bind(CreateFilterGraph([a EXCEPT !.cam.m_isInitialized = TRUE]), LAMBDA b :
            IF FAILED(b.hr) THEN b ELSE
            Bind(CreateCaptureGraphBuilder(b), LAMBDA c :
                IF FAILED(c.hr) THEN c
                ELSE Ret(c, S_OK))))

InitializeCall(x) ==
    IF x.cam.m_isInitialized THEN Ret(x, S_OK)
    ELSE
    Bind(CoInitializeEx(x), LAMBDA a :
        IF FAILED(a.hr) THEN a ELSE
        Bind(CreateFilterGraph(a), LAMBDA b :
            IF FAILED(b.hr) THEN b ELSE
            Bind(CreateCaptureGraphBuilder(b), LAMBDA c :
                IF FAILED(c.hr) THEN c
                ELSE Ret([c EXCEPT !.cam.m_isInitialized = TRUE], S_OK))))

\* --------------------------------------------------- Enumeratecameras
\* The while loop: i devices were taken from the enumerator so far.
RECURSIVE EnumerateLoop(_, _)
EnumerateLoop(x, i) ==
    Bind(Fw(x, "IEnumMoniker::Next", IF i < Len(x.devs) THEN S_OK ELSE S_FALSE), LAMBDA a :
        IF a.hr # S_OK THEN a
        ELSE
        Bind(Fw(a, "BindToStorage", S_OK), LAMBDA b :
            IF FAILED(b.hr) THEN EnumerateLoop(b, i + 1)
            ELSE
            Bind(Fw(b, "IPropertyBag::Read", S_OK), LAMBDA c :
                IF FAILED(c.hr) THEN EnumerateLoop(c, i + 1)
                ELSE EnumerateLoop(
                        [c EXCEPT !.out = Append(@, [friendlyName |-> c.devs[i + 1],
                                                     index |-> i])],
                        i + 1))))

EnumeratecamerasCall(x) ==
    Bind(Fw([x EXCEPT !.out = <<>>], "CoCreateInstance(SystemDeviceEnum)", CoCreateUsual(x)),
         LAMBDA a :
        IF FAILED(a.hr) THEN Returned(a, "Enumeratecameras")
        ELSE
        Bind(Fw(a, "CreateClassEnumerator", IF a.devs = <<>> THEN S_FALSE ELSE S_OK),
             LAMBDA b :
            IF b.hr = S_FALSE THEN Returned(Ret(b, VFW_E_NOT_FOUND), "Enumeratecameras")
            ELSE IF FAILED(b.hr) THEN NullCall(b)          \* pEnum->Next with pEnum null
            ELSE
            Bind(EnumerateLoop(b, 0), LAMBDA c :
                Returned(Ret(c, IF c.out = <<>> THEN VFW_E_NOT_FOUND ELSE S_OK),
                         "Enumeratecameras"))))

\* ------------------------------------------------------- SelectCamera
SelectCameraCall(x, cameraIndex) ==
    Bind(EnumeratecamerasCall(x), LAMBDA a :
        IF a.crashed THEN a
        ELSE IF FAILED(a.hr) THEN Returned(a, "SelectCamera")
        ELSE IF cameraIndex < 0 \/ cameraIndex >= Len(a.out)
        THEN Returned(Ret(a, E_INVALIDARG), "SelectCamera")
        ELSE
        Bind(Fw(a, "BindToObject", S_OK), LAMBDA b :
            IF FAILED(b.hr)
            THEN Returned([b EXCEPT !.cam.m_pCameraFilter = FALSE], "SelectCamera")
            ELSE IF ~b.cam.m_pGraph
            THEN NullCall([b EXCEPT !.cam.m_pCameraFilter = TRUE, !.gr.camera = FALSE])
            ELSE
            Bind(Fw([b EXCEPT !.cam.m_pCameraFilter = TRUE, !.gr.camera = FALSE],
                    "AddFilter(Camera)", S_OK), LAMBDA d :
                Returned([d EXCEPT !.gr.camera = SUCCEEDED(d.hr)], "SelectCamera"))))

\* The first camera of the list with the name, 0 when there is none.
FirstNamed(cameras, name) ==
    LET hits == {i \in 1..Len(cameras) : cameras[i].friendlyName = name}
    IN  IF hits = {} THEN 0 ELSE CHOOSE i \in hits : \A j \in hits : i <= j

SelectCameraByNameCall(x, name) ==
    Bind(EnumeratecamerasCall(x), LAMBDA a :
        IF a.crashed THEN a
        ELSE IF FAILED(a.hr) THEN a
        ELSE IF FirstNamed(a.out, name) = 0 THEN Ret(a, VFW_E_NOT_FOUND)
        ELSE SelectCameraCall(a, a.out[FirstNamed(a.out, name)].index))

\* ------------------------------------------------- SetupSampleGrabber
\* The object behind the held callback pointer; a new CSampleGrabberCB when
\* the pointer is null.
WithCallback(x) ==
    IF x.cam.m_pCallback THEN x
    ELSE [x EXCEPT !.cam.m_pCallback = TRUE, !.cb = NewCallback("CSampleGrabberCB")]

\* ISampleGrabber::SetCallback(m_pCallback, 1): the sample grabber takes a
\* reference to the callback it is given and drops the one it held.
SetCallback(x) ==
    Bind(Fw(x, "SetCallback", S_OK), LAMBDA a :
        IF SUCCEEDED(a.hr) /\ ~a.gr.cbSet
        THEN [a EXCEPT !.gr.cbSet = TRUE, !.cb = AddRefObj(@)]
        ELSE a)

\* CoCreateInstance stores the new filter in m_pSampleGrabberFilter without
\* releasing a filter held before (CComPtr::operator&): that one stays alive,
\* and with it the reference its sample grabber holds to the callback.
SetupSampleGrabberCall(x) ==
    Bind(Fw(x, "CoCreateInstance(SampleGrabber)", CoCreateUsual(x)), LAMBDA a :
        IF FAILED(a.hr)
        THEN Returned([a EXCEPT !.cam.m_pSampleGrabberFilter = FALSE], "SetupSampleGrabber")
        ELSE
        Bind(Fw([a EXCEPT !.cam.m_pSampleGrabberFilter = TRUE,
                          !.com.grabbers = @ + 1,
                          !.gr.grabber = FALSE, !.gr.connected = FALSE],
                "QueryInterface(ISampleGrabber)", S_OK), LAMBDA b :
            IF FAILED(b.hr)
            THEN Returned([b EXCEPT !.cam.m_pSampleGrabber = FALSE], "SetupSampleGrabber")
            ELSE
            Bind(Fw([b EXCEPT !.cam.m_pSampleGrabber = TRUE, !.gr.cbSet = FALSE],
                    "SetMediaType", S_OK), LAMBDA c :
                IF FAILED(c.hr) THEN Returned(c, "SetupSampleGrabber") ELSE
                Bind(SetCallback(WithCallback(c)), LAMBDA d :
                    IF FAILED(d.hr) THEN Returned(d, "SetupSampleGrabber") ELSE
                    Bind(Fw(d, "SetBufferSamples", S_OK), LAMBDA e :
                        IF FAILED(e.hr) THEN Returned(e, "SetupSampleGrabber")
                        ELSE IF ~e.cam.m_pGraph THEN NullCall(e)
                        ELSE
                        Bind(Fw(e, "AddFilter(Sample Grabber)", S_OK), LAMBDA g :
                            Returned([g EXCEPT !.gr.grabber = SUCCEEDED(g.hr)],
                                     "SetupSampleGrabber")))))))

\* -------------------------------------------------- SetCustomCallback
\* pCallback is null, the callback the camera holds already ("same"), or a
\* CFrameSavingCallback main has just made ("new", reference count 1).
SetCustomCallbackCall(x, pCallback) ==
    Bind(IF x.cam.m_pCallback /\ pCallback # "same"
         THEN [x EXCEPT !.cb = ReleaseObj(@)]
         ELSE x, LAMBDA a :
        Bind(CASE pCallback = "null" -> [a EXCEPT !.cam.m_pCallback = FALSE]
               [] pCallback = "same" -> [a EXCEPT !.cb = AddRefObj(@)]
               [] OTHER -> [a EXCEPT !.cam.m_pCallback = TRUE,
                                     !.cb = AddRefObj(NewCallback("CFrameSavingCallback"))],
             LAMBDA b :
            IF b.cam.m_pSampleGrabber /\ b.cam.m_pCallback
            THEN SetCallback(b)
            ELSE Ret(b, S_OK)))

\* --------------------------------------------------- SetupNullRenderer
SetupNullRendererCall(x) ==
    Bind(Fw(x, "CoCreateInstance(NullRenderer)", CoCreateUsual(x)), LAMBDA a :
        IF FAILED(a.hr)
        THEN Returned([a EXCEPT !.cam.m_pNullRenderer = FALSE], "SetupNullRenderer")
        ELSE IF ~a.cam.m_pGraph
        THEN NullCall([a EXCEPT !.cam.m_pNullRenderer = TRUE,
                                !.gr.renderer = FALSE, !.gr.connected = FALSE])
        ELSE
        Bind(Fw([a EXCEPT !.cam.m_pNullRenderer = TRUE,
                          !.gr.renderer = FALSE, !.gr.connected = FALSE],
                "AddFilter(Null Renderer)", S_OK), LAMBDA c :
            Returned([c EXCEPT !.gr.renderer = SUCCEEDED(c.hr)], "SetupNullRenderer")))

\* ------------------------------------- ConnectFilters, BuildFilterGraph
AllFilters == {"camera", "grabber", "renderer"}

ConnectFiltersCall(x) ==
    IF ~x.cam.m_pCaptureGraphBuilder THEN NullCall(x)
    ELSE
    Bind(Fw(x, "RenderStream", IF InGraph(x) = AllFilters THEN S_OK ELSE E_FAIL), LAMBDA a :
        Returned(IF SUCCEEDED(a.hr) THEN [a EXCEPT !.gr.connected = TRUE] ELSE a,
                 "ConnectFilters"))

BuildFilterGraphCall(x) ==
    Bind(IF ~x.cam.m_pCameraFilter THEN SelectCameraCall(x, 0) ELSE x, LAMBDA a :
        IF FAILED(a.hr) THEN a ELSE
        Bind(SetupSampleGrabberCall(a), LAMBDA b :
            IF FAILED(b.hr) THEN b ELSE
            Bind(SetupNullRendererCall(b), LAMBDA c :
                IF FAILED(c.hr) THEN c ELSE ConnectFiltersCall(c))))

\* -------------------------------------------------------- capture control
\* StartCapture without the m_isCapturing test.
StartCaptureCall_Rerun(x) ==
    IF ~x.cam.m_pMediaControl THEN Ret(x, E_FAIL)
    ELSE
    Bind(Fw(x, "Run", S_OK), LAMBDA a :
        IF SUCCEEDED(a.hr)
        THEN [a EXCEPT !.gr.state = "Running",
                       !.cam.m_isCapturing = TRUE,
                       !.cb = IF a.cam.m_pCallback THEN ResetStatisticsObj(@) ELSE @]
        ELSE a)

StartCaptureCall(x) ==
    IF ~x.cam.m_pMediaControl THEN Ret(x, E_FAIL)
    ELSE IF x.cam.m_isCapturing THEN Ret(x, S_OK)
    ELSE
    Bind(Fw(x, "Run", S_OK), LAMBDA a :
        IF SUCCEEDED(a.hr)
        THEN [a EXCEPT !.gr.state = "Running",
                       !.cam.m_isCapturing = TRUE,
                       !.cb = IF a.cam.m_pCallback THEN ResetStatisticsObj(@) ELSE @]
        ELSE a)

\* StopCapture that clears m_isCapturing whatever Stop returned.
StopCaptureCall_AlwaysClear(x) ==
    IF ~x.cam.m_pMediaControl THEN Ret(x, E_FAIL)
    ELSE IF ~x.cam.m_isCapturing THEN Ret(x, S_OK)
    ELSE
    Bind(Fw(x, "Stop", S_OK), LAMBDA a :
        IF SUCCEEDED(a.hr)
        THEN [a EXCEPT !.gr.state = "Stopped", !.cam.m_isCapturing = FALSE]
        ELSE [a EXCEPT !.cam.m_isCapturing = FALSE])

StopCaptureCall(x) ==
    IF ~x.cam.m_pMediaControl THEN Ret(x, E_FAIL)
    ELSE IF ~x.cam.m_isCapturing THEN Ret(x, S_OK)
    ELSE
    Bind(Fw(x, "Stop", S_OK), LAMBDA a :
        IF SUCCEEDED(a.hr)
        THEN [a EXCEPT !.gr.state = "Stopped", !.cam.m_isCapturing = FALSE]
        ELSE a)

PauseCaptureCall(x) ==
    IF ~x.cam.m_pMediaControl THEN Ret(x, E_FAIL)
    ELSE
    Bind(Fw(x, "Pause", S_OK), LAMBDA a :
        IF SUCCEEDED(a.hr) THEN [a EXCEPT !.gr.state = "Paused"] ELSE a)

GetGraphStateCall(x) ==
    IF ~x.cam.m_pMediaControl THEN Ret(x, E_FAIL)
    ELSE
    Bind(Fw(x, "GetState", S_OK), LAMBDA a :
        IF SUCCEEDED(a.hr) THEN [a EXCEPT !.out = <<a.gr.state>>] ELSE a)

GetCameraFormatCall(x) ==
    IF ~x.cam.m_pSampleGrabber THEN Ret(x, E_FAIL)
    ELSE Fw(x, "GetConnectedMediaType",
            IF x.gr.connected THEN S_OK ELSE VFW_E_NOT_CONNECTED)

\* ---------------------------------------------------------------- Cleanup
\* Releasing every interface pointer destroys the graph and its filters; the
\* sample grabber then drops the reference it holds to the callback.
ReleaseInterfaces(x) ==
    [x EXCEPT !.cb  = IF x.gr.cbSet /\ @.alive THEN ReleaseObj(@) ELSE @,
              !.gr  = NoGraph,
              !.cam = [NewCamera EXCEPT !.m_isInitialized = x.cam.m_isInitialized,
                                        !.m_isCapturing = x.cam.m_isCapturing]]

CoUninitialize(x) ==
    [x EXCEPT !.com.uninits = @ + 1,
              !.calls = Append(@, [call |-> "CoUninitialize", kind |-> "fw", hr |-> S_OK,
                                   inGraph |-> InGraph(x)])]

CleanupCall(x) ==
    Bind(IF x.cam.m_isCapturing THEN StopCaptureCall(x) ELSE x, LAMBDA a :
        Bind(IF a.cam.m_pCallback
             THEN [a EXCEPT !.cb = ReleaseObj(@), !.cam.m_pCallback = FALSE]
             ELSE a, LAMBDA b :
            Bind(ReleaseInterfaces(b), LAMBDA c :
                Ret(CoUninitialize([c EXCEPT !.cam.m_isInitialized = FALSE,
                                             !.cam.m_isCapturing = FALSE]),
                    S_OK))))

\* ------------------------------------------------ calls on the camera
\* The framework calls of an operation that may be made to fail: any of the
\* n calls it makes when none fails, or none (0).
FaultPoints(n) == IF com.faults < MaxFaults THEN 0..n ELSE {0}

\* The camera object's lifetime has ended.
Destroyed == last.op = "~DirectShowCamera"

\* The operation has ended in x: the objects are as it left them. No method is
\* called on a destroyed camera.
Commit(op, x, pre, id) ==
    /\ ~Destroyed
    /\ \E y \in {x} :
       /\ camera' = y.cam
       /\ graph' = y.gr
       /\ com' = y.com
       /\ cb' = y.cb
       /\ crashed' = y.crashed
       /\ last' = [Done(op, NoArg, y.hr, y.calls) EXCEPT
                       !.returned = ~y.crashed, !.out = y.out, !.pre = pre, !.id = id]
       /\ UNCHANGED <<file, errVars, threads>>

B2N(b) == IF b THEN 1 ELSE 0

Initialize ==
    /\ ~crashed
    /\ com.inits < MaxCom \/ camera.m_isInitialized
    /\ \E k \in FaultPoints(InitializeCall(Op(<<>>, 0)).n) :
          Commit("Initialize", InitializeCall(Op(<<>>, k)),
                 B2N(camera.m_isInitialized), "")

Enumeratecameras ==
    /\ ~crashed
    /\ \E devs \in DeviceLists :
          \E k \in FaultPoints(EnumeratecamerasCall(Op(devs, 0)).n) :
             Commit("Enumeratecameras", EnumeratecamerasCall(Op(devs, k)), 0, "")

SelectCamera ==
    /\ ~crashed
    /\ \E devs \in DeviceLists, i \in 0..MaxDevices :
          \E k \in FaultPoints(SelectCameraCall(Op(devs, 0), i).n) :
             Commit("SelectCamera", SelectCameraCall(Op(devs, k), i), 0, "")

SelectCameraByName ==
    /\ ~crashed
    /\ \E devs \in DeviceLists, name \in DeviceNames :
          \E k \in FaultPoints(SelectCameraByNameCall(Op(devs, 0), name).n) :
             Commit("SelectCameraByName",
                    SelectCameraByNameCall(Op(devs, k), name), 0, name)

SetupSampleGrabber ==
    /\ ~crashed
    /\ com.grabbers < MaxGrabbers
    /\ \E k \in FaultPoints(SetupSampleGrabberCall(Op(<<>>, 0)).n) :
          Commit("SetupSampleGrabber", SetupSampleGrabberCall(Op(<<>>, k)), 0, "")

\* One callback object is followed at a time: main hands over a new one only
\* while neither the camera nor the sample grabber refers to a live one.
SetCustomCallback ==
    /\ ~crashed
    /\ \E p \in {"null", "same", "new"} :
          /\ p = "same" => camera.m_pCallback /\ cb.m_refCount < MaxRef
          /\ p = "new" => ~camera.m_pCallback /\ ~graph.cbSet
          /\ \E k \in FaultPoints(SetCustomCallbackCall(Op(<<>>, 0), p).n) :
                Commit("SetCustomCallback",
                       SetCustomCallbackCall(Op(<<>>, k), p), 0, p)

BuildFilterGraph ==
    /\ ~crashed
    /\ com.grabbers < MaxGrabbers
    /\ \E devs \in DeviceLists :
          \E k \in FaultPoints(BuildFilterGraphCall(Op(devs, 0)).n) :
             Commit("BuildFilterGraph", BuildFilterGraphCall(Op(devs, k)),
                    B2N(camera.m_pCameraFilter), "")

StartCapture ==
    /\ ~crashed
    /\ \E k \in FaultPoints(StartCaptureCall(Op(<<>>, 0)).n) :
          Commit("StartCapture", StartCaptureCall(Op(<<>>, k)),
                 B2N(camera.m_isCapturing), "")

StopCapture ==
    /\ ~crashed
    /\ \E k \in FaultPoints(StopCaptureCall(Op(<<>>, 0)).n) :
          Commit("StopCapture", StopCaptureCall(Op(<<>>, k)),
                 B2N(camera.m_isCapturing), "")

PauseCapture ==
    /\ ~crashed
    /\ \E k \in FaultPoints(PauseCaptureCall(Op(<<>>, 0)).n) :
          Commit("PauseCapture", PauseCaptureCall(Op(<<>>, k)),
                 B2N(camera.m_isCapturing), "")

GetGraphState ==
    /\ ~crashed
    /\ \E k \in FaultPoints(GetGraphStateCall(Op(<<>>, 0)).n) :
          Commit("GetGraphState", GetGraphStateCall(Op(<<>>, k)), 0, "")

GetCameraFormat ==
    /\ ~crashed
    /\ \E k \in FaultPoints(GetCameraFormatCall(Op(<<>>, 0)).n) :
          Commit("GetCameraFormat", GetCameraFormatCall(Op(<<>>, k)), 0, "")

Cleanup ==
    /\ ~crashed
    /\ com.uninits < MaxCom
    /\ \E k \in FaultPoints(CleanupCall(Op(<<>>, 0)).n) :
          Commit("Cleanup", CleanupCall(Op(<<>>, k)),
                 B2N(camera.m_isCapturing), "")

\* ~DirectShowCamera(): Cleanup, once, at the end of the object's lifetime.
Destructor ==
    /\ ~crashed
    /\ \E k \in FaultPoints(CleanupCall(Op(<<>>, 0)).n) :
          Commit("~DirectShowCamera", CleanupCall(Op(<<>>, k)),
                 B2N(camera.m_isCapturing), "")

\* The frames the running graph delivers: an empty sample or one full pixel.
CamFrames == {f \in Frames : ~f.null /\ FrameSize(f) \in {0, 3} /\ \A i \in 1..FrameSize(f) : f.data[i] = 255}

\* The framework's thread hands a frame to the callback of the sample grabber.
DeliverFrame ==
    /\ graph.state = "Running"
    /\ graph.connected
    /\ graph.cbSet
    /\ \E f \in CamFrames : BufferCB(f)

Init ==
    /\ camera = NewCamera
    /\ graph = NoGraph
    /\ com = NoCom
    /\ threads = NoThreads
    /\ cb = NoObject
    /\ file = NoFile
    /\ crashed = FALSE
    /\ last = Done("DirectShowCamera", NoArg, 0, <<>>)
    /\ errHr = S_OK
    /\ errText = <<>>

Next ==
    \/ Initialize
    \/ Enumeratecameras
    \/ SelectCamera
    \/ SelectCameraByName
    \/ SetupSampleGrabber
    \/ SetCustomCallback
    \/ BuildFilterGraph
    \/ StartCapture
    \/ StopCapture
    \/ PauseCapture
    \/ GetGraphState
    \/ GetCameraFormat
    \/ Cleanup
    \/ Destructor
    \/ DeliverFrame

Spec == Init /\ [][Next]_vars

\* ------------------------------------------- properties of the camera
\* The framework calls and the completed methods among the calls of the last
\* operation.
FrameworkCalls(calls) == {i \in 1..Len(calls) : calls[i].kind = "fw"}

BuildStepNames == {"SelectCamera", "SetupSampleGrabber", "SetupNullRenderer", "ConnectFilters"}

IsBuildStep(e) == e.kind = "op" /\ e.call \in BuildStepNames

\* The steps BuildFilterGraph ran, in order, each with the status it returned.
BuildSteps(calls) == SelectSeq(calls, IsBuildStep)

\* The steps of a BuildFilterGraph in which none fails; held tells whether a
\* camera filter was held when it was called.
ExpectedSteps(held) ==
    IF held
    THEN <<"SetupSampleGrabber", "SetupNullRenderer", "ConnectFilters">>
    ELSE <<"SelectCamera", "SetupSampleGrabber", "SetupNullRenderer", "ConnectFilters">>

\* C2: a BuildFilterGraph that returned ran a prefix of the steps SelectCamera
\* (only when no camera filter was held), SetupSampleGrabber,
\* SetupNullRenderer, ConnectFilters, in this order; a step ran only after
\* every earlier one succeeded, the status returned is that of the last step
\* run (the first that failed, or ConnectFilters), and RenderStream was called
\* only with the held camera, sample grabber and null renderer all in the
\* graph.
C2_BuildOrder ==
    (last.op = "BuildFilterGraph" /\ last.returned) =>
        LET st == BuildSteps(last.calls)
            ex == ExpectedSteps(last.pre = 1)
        IN  /\ Len(st) \in 1..Len(ex)
            /\ \A i \in 1..Len(st) : st[i].call = ex[i]
            /\ \A i \in 1..(Len(st) - 1) : SUCCEEDED(st[i].hr)
            /\ Len(st) < Len(ex) => FAILED(st[Len(st)].hr)
            /\ last.ret = st[Len(st)].hr
            /\ \A i \in FrameworkCalls(last.calls) :
                  last.calls[i].call = "RenderStream" =>
                      last.calls[i].inGraph = AllFilters

SurfacingOps ==
    {"Initialize", "Enumeratecameras", "SelectCamera", "SelectCameraByName",
     "SetupSampleGrabber", "BuildFilterGraph", "StartCapture", "StopCapture",
     "PauseCapture", "GetCameraFormat"}

\* C3: when a framework call of Initialize, Enumeratecameras, SelectCamera,
\* SelectCameraByName, SetupSampleGrabber, BuildFilterGraph, StartCapture,
\* StopCapture, PauseCapture or GetCameraFormat failed, the operation returned,
\* and it returned the status of that framework call.
C3_ErrorsSurfaced ==
    last.op \in SurfacingOps =>
        \A i \in FrameworkCalls(last.calls) :
            FAILED(last.calls[i].hr) =>
                last.returned /\ last.ret = last.calls[i].hr

\* C7: in the list Enumeratecameras filled, the index field of every record is
\* the record's position in the list, counted from 0.
C7_IndexIsPosition ==
    (last.op = "Enumeratecameras" /\ last.returned) =>
        \A i \in 1..Len(last.out) : last.out[i].index = i - 1

\* C10: on an initialized camera, a StartCapture that returned a success
\* status leaves the graph running, and IsCapturing() is true only while the
\* graph is running.
C10_CapturingMeansRunning ==
    camera.m_isInitialized =>
        /\ (last.op = "StartCapture" /\ last.returned /\ SUCCEEDED(last.ret))
               => graph.state = "Running"
        /\ camera.m_isCapturing => graph.state = "Running"

\* The objects a capture-control call can touch are as they were.
SameObjects == camera' = camera /\ graph' = graph /\ cb' = cb /\ com' = com

\* The call that ends with this step returned S_OK and made no framework call.
NoOpReturn == last'.returned /\ last'.ret = S_OK /\ last'.calls = <<>>

StartAgain == last'.op = "StartCapture" /\ camera.m_isCapturing
StopAgain  == last'.op = "StopCapture" /\ ~camera.m_isCapturing

NoControlReturn == last'.returned /\ last'.ret = E_FAIL /\ last'.calls = <<>>

ControlOps == {"StartCapture", "StopCapture", "PauseCapture", "GetGraphState"}

\* Cleanup, called by the application or by the destructor.
CleanupOps == {"Cleanup", "~DirectShowCamera"}

\* The call recorded in l made the framework call `name`, and it failed / succeeded.
FailedCall(l, name) ==
    \E i \in FrameworkCalls(l.calls) : l.calls[i].call = name /\ FAILED(l.calls[i].hr)

SucceededCall(l, name) ==
    \E i \in FrameworkCalls(l.calls) : l.calls[i].call = name /\ SUCCEEDED(l.calls[i].hr)

\* C12: StartCapture, StopCapture, PauseCapture and GetGraphState return
\* E_FAIL with no framework call and no change when no media control exists;
\* a StartCapture whose Run failed leaves IsCapturing false, the graph state
\* and the callback's statistics as they were; a StopCapture whose Stop failed
\* leaves IsCapturing true; a failed PauseCapture or GetGraphState leaves the
\* capture state as it was; IsCapturing becomes true only in a StartCapture
\* whose Run succeeded and false only in a StopCapture whose Stop succeeded
\* or in Cleanup (the destructor's included).
C12_FailureKeepsState ==
    [][/\ (last'.op \in ControlOps /\ ~camera.m_pMediaControl) =>
             (/\ last'.returned /\ last'.ret = E_FAIL /\ last'.calls = <<>>
              /\ SameObjects)
       /\ (last'.op = "StartCapture" /\ FailedCall(last', "Run")) =>
             (/\ ~camera'.m_isCapturing
              /\ graph'.state = graph.state
              /\ cb' = cb)
       /\ (last'.op = "StopCapture" /\ FailedCall(last', "Stop")) =>
             (camera'.m_isCapturing /\ graph'.state = graph.state)
       /\ (last'.op \in ControlOps /\ last'.returned /\ FAILED(last'.ret)) =>
             (/\ camera'.m_isCapturing = camera.m_isCapturing
              /\ graph'.state = graph.state)
       /\ (~camera.m_isCapturing /\ camera'.m_isCapturing) =>
             (last'.op = "StartCapture" /\ SucceededCall(last', "Run"))
       /\ (camera.m_isCapturing /\ ~camera'.m_isCapturing) =>
             \/ last'.op = "StopCapture" /\ SucceededCall(last', "Stop")
             \/ last'.op \in CleanupOps
      ]_vars

\* C12 witness: Run failed in a StartCapture on a camera whose callback had
\* counted frames of an earlier capture; they are still counted.
C12_Witness ==
    /\ last.op = "StartCapture"
    /\ FailedCall(last, "Run")
    /\ ~camera.m_isCapturing
    /\ cb.alive /\ cb.m_frameCount > 0

\* The framework calls of an Initialize in which every step succeeds.
InitSteps ==
    <<"CoInitializeEx", "CoCreateInstance(FilterGraph)", "QueryInterface(IMediaControl)",
      "QueryInterface(IMediaEvent)", "CoCreateInstance(CaptureGraphBuilder2)",
      "SetFiltergraph">>

\* Every step of Initialize was made in the call recorded in l, and succeeded.
AllInitStepsSucceeded(l) ==
    \A k \in 1..Len(InitSteps) : SucceededCall(l, InitSteps[k])

\* C13: IsInitialized() becomes true only in an Initialize in which
\* CoInitializeEx, the creation of the filter graph, its media control and
\* media event interfaces, and the creation of the capture graph builder all
\* succeeded, and it does so in every such Initialize; it becomes false only
\* in Cleanup (the destructor's included); while it is true the four interface pointers are held; an
\* Initialize in which a step failed returns that step's status and leaves
\* IsInitialized false; Initialize on an initialized camera returns S_OK,
\* makes no framework call and changes nothing.
C13_Initialized ==
    [][/\ (last'.op = "Initialize" /\ ~camera.m_isInitialized) =>
             /\ last'.returned
             /\ camera'.m_isInitialized <=> AllInitStepsSucceeded(last')
             /\ camera'.m_isInitialized => last'.ret = S_OK
             /\ \A i \in FrameworkCalls(last'.calls) :
                   FAILED(last'.calls[i].hr) =>
                       (last'.ret = last'.calls[i].hr /\ ~camera'.m_isInitialized)
       /\ (last'.op = "Initialize" /\ camera.m_isInitialized) =>
             (NoOpReturn /\ SameObjects)
       /\ (~camera.m_isInitialized /\ camera'.m_isInitialized) => last'.op = "Initialize"
       /\ (camera.m_isInitialized /\ ~camera'.m_isInitialized) => last'.op \in CleanupOps
       /\ last'.op \in CleanupOps => ~camera'.m_isInitialized
       /\ camera'.m_isInitialized =>
             (/\ camera'.m_pGraph /\ camera'.m_pMediaControl /\ camera'.m_pMediaEvent
              /\ camera'.m_pCaptureGraphBuilder
              /\ com'.inits > com'.uninits)
      ]_vars

\* C13 witness: an Initialize failed at its last step, SetFiltergraph, and the
\* camera is not initialized.
C13_Witness ==
    /\ last.op = "Initialize"
    /\ FailedCall(last, "SetFiltergraph")
    /\ last.ret = FaultCode
    /\ ~camera.m_isInitialized

\* C14: CoUninitialize was never called more often than CoInitializeEx
\* succeeded, and once the camera is destroyed the two numbers are equal.
C14_ComBalanced ==
    /\ com.uninits <= com.inits
    /\ Destroyed => com.uninits = com.inits

\* ------------------------------------------------------------------------
\* StartCapture on the application thread against BufferCB on the
\* framework's thread, statement by statement. Nothing orders the two
\* threads' accesses to m_frameCount, so its increment is a read and a later
\* write, and every interleaving of the statements is possible.
\* ------------------------------------------------------------------------

\* The camera after Initialize and BuildFilterGraph have succeeded, with the
\* callback SetupSampleGrabber made: the camera and the sample grabber each
\* hold one reference to it.
BuiltCamera ==
    [m_pGraph |-> TRUE, m_pCaptureGraphBuilder |-> TRUE, m_pMediaControl |-> TRUE,
     m_pMediaEvent |-> TRUE, m_pCameraFilter |-> TRUE, m_pSampleGrabberFilter |-> TRUE,
     m_pSampleGrabber |-> TRUE, m_pNullRenderer |-> TRUE, m_pCallback |-> TRUE,
     m_isInitialized |-> TRUE, m_isCapturing |-> FALSE]

BuiltGraph ==
    [state |-> "Stopped", camera |-> TRUE, grabber |-> TRUE, renderer |-> TRUE,
     connected |-> TRUE, cbSet |-> TRUE]

BuiltCallback == AddRefObj(NewCallback("CSampleGrabberCB"))

\* if (!m_pMediaControl) return E_FAIL; if (m_isCapturing) return S_OK;
StartCapture_Enter ==
    /\ ~crashed
    /\ threads.app = "idle"
    /\ threads' = IF ~camera.m_pMediaControl
                  THEN [threads EXCEPT !.app = "returned", !.hr = E_FAIL]
                  ELSE IF camera.m_isCapturing
                  THEN [threads EXCEPT !.app = "returned", !.hr = S_OK]
                  ELSE [threads EXCEPT !.app = "Run"]
    /\ UNCHANGED <<cbVars, last, camera, graph, com, errVars>>

\* HRESULT hr = m_pMediaControl->Run(); the graph delivers frames from here on.
StartCapture_Run ==
    /\ threads.app = "Run"
    /\ \E k \in FaultPoints(1) :
          LET a == Fw(Op(<<>>, k), "Run", S_OK)
          IN  /\ com' = a.com
              /\ graph' = IF SUCCEEDED(a.hr) THEN [graph EXCEPT !.state = "Running"]
                          ELSE graph
              /\ threads' = IF SUCCEEDED(a.hr)
                            THEN [threads EXCEPT !.app = "m_isCapturing", !.hr = a.hr,
                                                 !.delivered = 0]
                            ELSE [threads EXCEPT !.app = "returned", !.hr = a.hr]
    /\ UNCHANGED <<cbVars, last, camera, errVars>>

\* m_isCapturing = true;
StartCapture_SetCapturing ==
    /\ threads.app = "m_isCapturing"
    /\ camera' = [camera EXCEPT !.m_isCapturing = TRUE]
    /\ threads' = [threads EXCEPT !.app = "ResetStatistics"]
    /\ UNCHANGED <<cbVars, last, graph, com, errVars>>

\* if (m_pCallback) m_pCallback->ResetStatistics();
StartCapture_Reset ==
    /\ threads.app = "ResetStatistics"
    /\ cb' = IF camera.m_pCallback THEN ResetStatisticsObj(cb) ELSE cb
    /\ threads' = [threads EXCEPT !.app = "returned"]
    /\ UNCHANGED <<file, crashed, last, camera, graph, com, errVars>>

\* return hr; the application then goes on to its next call.
StartCapture_Return ==
    /\ threads.app = "returned"
    /\ last' = [Done("StartCapture", NoArg, threads.hr, <<>>) EXCEPT
                    !.pre = B2N(camera.m_isCapturing)]
    /\ threads' = [threads EXCEPT !.app = "idle"]
    /\ UNCHANGED <<cbVars, camera, graph, com, errVars>>

\* StopCapture between two StartCapture calls; frames in flight at the call
\* are still handed to the callback.
StopCapture_Whole ==
    /\ ~crashed
    /\ threads.app = "idle"
    /\ camera.m_isCapturing
    /\ LET a == StopCaptureCall(Op(<<>>, 0))
       IN  /\ camera' = a.cam
           /\ graph' = a.gr
           /\ last' = [Done("StopCapture", NoArg, a.hr, a.calls) EXCEPT !.pre = 1]
    /\ UNCHANGED <<cbVars, com, errVars, threads>>

\* m_frameCount++ begins: the framework's thread reads the counter. The graph
\* hands over a frame only while it runs.
BufferCB_Load ==
    /\ Usable
    /\ threads.fw = "idle"
    /\ graph.state = "Running"
    /\ threads.delivered < MaxCount
    /\ cb.m_frameCount < MaxCount
    /\ threads' = [threads EXCEPT !.fw = "loaded", !.reg = cb.m_frameCount,
                                  !.delivered = @ + 1]
    /\ UNCHANGED <<cbVars, last, camera, graph, com, errVars>>

\* m_frameCount++ ends: the value read, plus one, is written back; then
\* ProcessFrame, OnFrameReceived and return S_OK.
BufferCB_Store ==
    /\ Usable
    /\ threads.fw = "loaded"
    /\ \E f \in CamFrames :
       \E y \in BufferCBCall([cb EXCEPT !.m_frameCount = threads.reg], file, f) :
          /\ cb' = y.cb
          /\ file' = y.file
          /\ crashed' = y.crashed
    /\ threads' = [threads EXCEPT !.fw = "idle"]
    /\ UNCHANGED <<last, camera, graph, com, errVars>>

\* The counter as an earlier capture left it.
InitRace ==
    /\ camera = BuiltCamera
    /\ graph = BuiltGraph
    /\ com = [NoCom EXCEPT !.inits = 1, !.grabbers = 1]
    /\ cb \in {[BuiltCallback EXCEPT !.m_frameCount = n, !.bufferCalls = n] : n \in 0..MaxCount}
    /\ file = NoFile
    /\ crashed = FALSE
    /\ last = Done("BuildFilterGraph", NoArg, S_OK, <<>>)
    /\ errHr = S_OK
    /\ errText = <<>>
    /\ threads = NoThreads

NextRace ==
    \/ StartCapture_Enter
    \/ StartCapture_Run
    \/ StartCapture_SetCapturing
    \/ StartCapture_Reset
    \/ StartCapture_Return
    \/ StopCapture_Whole
    \/ BufferCB_Load
    \/ BufferCB_Store

SpecRace == InitRace /\ [][NextRace]_vars

\* C9: when StartCapture has returned a success status and no BufferCB call is
\* in progress, the frame count equals the number of frames the framework
\* handed to BufferCB since the Run that put the graph into the running
\* state.
C9_CountMatchesDelivered ==
    (/\ last.op = "StartCapture"
     /\ SUCCEEDED(last.ret)
     /\ threads.app = "idle"
     /\ threads.fw = "idle"
     /\ graph.state = "Running")
        => cb.m_frameCount = threads.delivered

\* ------------------------------------------------------------------------
\* Cleanup on the application thread, statement by statement, against
\* BufferCB on the framework's thread.
\* ------------------------------------------------------------------------

\* A statement of Cleanup as it is run: the status it got, whether
\* m_isCapturing was set and how many frames had been handed to BufferCB when
\* it ran.
CleanupStep(name, hr) ==
    [step |-> name, hr |-> hr, capturing |-> camera.m_isCapturing,
     delivered |-> threads.delivered]

\* if (m_isCapturing) StopCapture();
Cleanup_Stop ==
    /\ ~crashed
    /\ threads.app = "idle"
    /\ IF camera.m_isCapturing
       THEN \E k \in FaultPoints(StopCaptureCall(Op(<<>>, 0)).n) :
            \E a \in {StopCaptureCall(Op(<<>>, k))} :
               /\ camera' = a.cam
               /\ graph' = a.gr
               /\ com' = a.com
               /\ threads' = [threads EXCEPT
                                 !.app = "m_pCallback",
                                 !.cleanup = Append(@, CleanupStep("StopCapture", a.hr))]
       ELSE /\ threads' = [threads EXCEPT !.app = "m_pCallback"]
            /\ UNCHANGED <<camera, graph, com>>
    /\ UNCHANGED <<cbVars, last, errVars>>

\* if (m_pCallback) { m_pCallback->Release(); m_pCallback = nullptr; }
Cleanup_ReleaseCallback ==
    /\ threads.app = "m_pCallback"
    /\ IF camera.m_pCallback
       THEN /\ cb' = ReleaseObj(cb)
            /\ camera' = [camera EXCEPT !.m_pCallback = FALSE]
            /\ threads' = [threads EXCEPT
                              !.app = "interfaces",
                              !.cleanup = Append(@, CleanupStep("m_pCallback->Release", S_OK))]
       ELSE /\ threads' = [threads EXCEPT !.app = "interfaces"]
            /\ UNCHANGED <<cb, camera>>
    /\ UNCHANGED <<file, crashed, last, graph, com, errVars>>

\* m_pNullRenderer.Release(); ... m_pGraph.Release();
Cleanup_ReleaseInterfaces ==
    /\ threads.app = "interfaces"
    /\ \E a \in {ReleaseInterfaces(Op(<<>>, 0))} :
          /\ cb' = a.cb
          /\ graph' = a.gr
          /\ camera' = a.cam
    /\ threads' = [threads EXCEPT
                      !.app = "flags",
                      !.cleanup = Append(@, CleanupStep("interfaces.Release", S_OK))]
    /\ UNCHANGED <<file, crashed, last, com, errVars>>

\* m_isInitialized = false; m_isCapturing = false; CoUninitialize(); return.
Cleanup_Return ==
    /\ threads.app = "flags"
    /\ camera' = [camera EXCEPT !.m_isInitialized = FALSE, !.m_isCapturing = FALSE]
    /\ com' = [com EXCEPT !.uninits = @ + 1]
    /\ last' = Done("Cleanup", NoArg, S_OK, <<>>)
    /\ threads' = [threads EXCEPT !.app = "cleaned"]
    /\ UNCHANGED <<cbVars, graph, errVars>>

\* A built camera, capturing or not; the graph of a capturing camera runs, or
\* was paused by PauseCapture. The callback is the default one, or a
\* CFrameSavingCallback main made and still refers to.
CustomCallback == AddRefObj(AddRefObj(NewCallback("CFrameSavingCallback")))

InitClean ==
    /\ \E capturing \in BOOLEAN :
          /\ camera = [BuiltCamera EXCEPT !.m_isCapturing = capturing]
          /\ graph \in {[BuiltGraph EXCEPT !.state = st] :
                           st \in IF capturing THEN {"Running", "Paused"} ELSE {"Stopped"}}
    /\ com = [NoCom EXCEPT !.inits = 1, !.grabbers = 1]
    /\ cb \in {BuiltCallback, CustomCallback}
    /\ file = NoFile
    /\ crashed = FALSE
    /\ last = Done("BuildFilterGraph", NoArg, S_OK, <<>>)
    /\ errHr = S_OK
    /\ errText = <<>>
    /\ threads = NoThreads

NextClean ==
    \/ Cleanup_Stop
    \/ Cleanup_ReleaseCallback
    \/ Cleanup_ReleaseInterfaces
    \/ Cleanup_Return
    \/ BufferCB_Load
    \/ BufferCB_Store

SpecClean == InitClean /\ [][NextClean]_vars

\* C15: StopCapture is the first thing Cleanup does when it does it, and no
\* release is made with m_isCapturing set unless StopCapture was called
\* before; when Cleanup has returned, both flags are false, the callback
\* pointer and every interface pointer are null and the graph is gone,
\* whatever Stop returned; and no frame is handed to BufferCB once Cleanup has
\* released the camera's reference to the callback.
C15_CleanupStopsFirst ==
    LET st == threads.cleanup
    IN  /\ \A i \in 1..Len(st) :
              /\ st[i].step = "StopCapture" => i = 1
              /\ (st[i].step # "StopCapture" /\ st[i].capturing) =>
                    st[1].step = "StopCapture"
        /\ threads.app = "cleaned" => (camera = NewCamera /\ graph = NoGraph)
        /\ \A i \in 1..Len(st) :
              st[i].step = "m_pCallback->Release" =>
                  threads.delivered = st[i].delivered

\* ------------------------------------------------------------------------
\* AnalyzeFrame and CalculateAverageBrightness on their own
\* ------------------------------------------------------------------------
\* Channel values: black, nearly black (the integer average rounds down),
\* white.
ChannelVals == {0, 1, 255}

BrightFrames ==
    {[null |-> FALSE, data |-> d] :
        d \in UNION {[1..n -> ChannelVals] : n \in 0..MaxBright}}

\* AnalyzeFrame(frameData, frameSize): the brightness is worked out only for
\* frameSize > 0. The call is recorded with the bytes it was given and what
\* CalculateAverageBrightness made of them.
AnalyzeFrameCall(f) ==
    /\ Usable
    /\ last' = [Done("AnalyzeFrame", Buf(f), 0, AnalyzeFrame(Ctx(cb, file, <<>>), f).calls)
                   EXCEPT !.out = IF FrameSize(f) > 0
                                  THEN <<f.data, CalculateAverageBrightness(f)>>
                                  ELSE <<>>]
    /\ UNCHANGED <<cbVars, camVars, errVars>>

InitBright ==
    /\ cb = NewCallback("CSampleGrabberCB")
    /\ file = NoFile
    /\ crashed = FALSE
    /\ last = Done("new", NoArg, 0, <<>>)
    /\ camera = NewCamera
    /\ graph = NoGraph
    /\ com = NoCom
    /\ threads = NoThreads
    /\ errHr = S_OK
    /\ errText = <<>>

NextBright == \E f \in BrightFrames : AnalyzeFrameCall(f)

SpecBright == InitBright /\ [][NextBright]_vars

\* The sum of (b0 + b1 + b2) div 3 over the first n complete pixels of d.
RECURSIVE PixelSum(_, _)
PixelSum(d, n) ==
    IF n = 0 THEN 0
    ELSE PixelSum(d, n - 1) + (d[3 * n - 2] + d[3 * n - 1] + d[3 * n]) \div 3

MaxLong == 2147483647

\* C16: for a buffer of frameSize > 0 bytes the divisor frameSize div 3 is not
\* zero, the value returned is defined, the running sum is the sum of the
\* integer channel averages of the complete pixels and fits a 32-bit signed
\* integer, and the quotient lies in 0..255.
C16_Brightness ==
    (last.op = "AnalyzeFrame" /\ last.arg.len > 0) =>
        LET d == last.out[1]
            r == last.out[2]
        IN  /\ r.divisor # 0
            /\ ~r.nan
            /\ r.divisor = Len(d) \div 3
            /\ r.total = PixelSum(d, Len(d) \div 3)
            /\ r.total <= MaxLong
            /\ 0 <= r.total /\ r.total <= 255 * r.divisor

====
